---- MODULE Spec2Model ----
(***************************************************************************)
(* Model of the open-interest screener (main.py, bingx_client.py).         *)
(*                                                                         *)
(* Spec: the order-execution sequence, open_trade_for_user driving         *)
(* BingxClient.  One behaviour is one execution attempt; every exchange    *)
(* call is one step whose answer (a response code, or an exception) is     *)
(* chosen by the exchange.                                                 *)
(*                                                                         *)
(* SpecScan: the scan loop of main(), one check_symbol worker per symbol   *)
(* running in parallel, the user store (users.json and the in-memory       *)
(* dictionary of the bot), the settings handlers that save it, and the     *)
(* hand-over of a signal to open_trade_for_user.                           *)
(***************************************************************************)
EXTENDS Integers, Sequences, FiniteSets, TLC

\* ------------------------------------------------------------------ bounds
\* largest number of configured take-profit levels (take_profit_pcts)
MaxLevels == 2
\* number of passes of the scan loop of main()
MaxScans == 2
\* number of settings commands the subscribers send
MaxChanges == 1

\* ------------------------------------------------------- program constants
\* response code "position mode mismatch" tested after the entry order
CodeModeMismatch == 109400
\* response code "symbol not tradable" tested after the entry order
CodeSymbolUnavailable == 109425
\* the code set_multiple_tp records for a level whose request raised
CodeTpException == 1

\* OI_4H_THRESHOLD, OI_24H_THRESHOLD: least growth of open interest, in %
OI_4H_THRESHOLD == 10
OI_24H_THRESHOLD == 16
\* MIN_OI_USDT
MIN_OI_USDT == 500000
\* SIGNAL_COOLDOWN_HOURS
SIGNAL_COOLDOWN_HOURS == 3
\* the number of 5-minute points check_symbol needs for 24 hours
OiHistPoints24h == 288

\* quantities are integers counted in units of 10^-4
Scale == 10 ^ 4

\* a response code of the exchange that is none of the codes the program
\* tests for (a generic rejection)
CodeRejected == CodeModeMismatch + CodeSymbolUnavailable

\* the answer "the request raised an exception" (not a response code)
Raise == 0 - 1

\* the quantities (margin * leverage / price, rounded) an attempt is run with
Qtys == {10 * Scale}

\* the position sizes the exchange can report after an accepted entry:
\* nothing, just under 90%, exactly 90%, and the full quantity
FillAmts(q) == {0, (9 * q) \div 10 - 1, (9 * q) \div 10, q}

\* number of decimal places of the mark price returned by get_mark_price
MarkPrecisions == {3}

Abs(x) == IF x < 0 THEN -x ELSE x

\* ------------------------------------------------------- BingxClient (pure)

\* positionSide of place_market_order
PlaceMarketOrderSide(side, pos_side_BOTH) ==
    IF pos_side_BOTH THEN "BOTH"
    ELSE IF side = "long" THEN "LONG" ELSE "SHORT"

\* "side" parameter of set_leverage
SetLeverageSide(one_way_mode) == IF one_way_mode THEN "BOTH" ELSE "LONG"

\* positionSide of the take-profit orders of set_multiple_tp
SetMultipleTpSide(side, both) ==
    IF both THEN "BOTH"
    ELSE IF side = "short" THEN "SHORT" ELSE "LONG"

\* positionSide of set_trailing: derived from the side alone
SetTrailingSide(side) == IF side = "long" THEN "LONG" ELSE "SHORT"

\* decimals the per-level quantity is rounded to, from the price precision
QtyRound(precision) ==
    IF precision >= 3 THEN 0
    ELSE IF precision = 2 THEN 2
    ELSE IF precision = 1 THEN 3
    ELSE 4

\* num/den rounded to the nearest integer, ties to even (Python's round)
RoundHalfEven(num, den) ==
    LET q == num \div den
        r == num % den
    IN  IF 2 * r < den THEN q
        ELSE IF 2 * r > den THEN q + 1
        ELSE IF q % 2 = 0 THEN q ELSE q + 1

\* round(x / n, nd) for x in units of 10^-4; the result is in the same units
Round(x, n, nd) ==
    LET step == 10 ^ (4 - nd)
    IN  RoundHalfEven(x, n * step) * step

\* qty_tp of set_multiple_tp
QtyTp(q, n, precision) == Round(q, n, QtyRound(precision))

\* ------------------------------------------------ open_trade_for_user (pure)

\* mutation of AnyFailed: all() written for any()
AnyFailed_All(answer) == \A i \in 1..Len(answer) : answer[i] # 0

\* any(r.get('code') != 0 for r in answer)
AnyFailed(answer) == \E i \in 1..Len(answer) : answer[i] # 0

\* the position of the symbol found in the list (None: found = FALSE)
NoPos == [found |-> FALSE, positionAmt |-> 0]
PosOf(amt) == IF amt = 0 THEN NoPos ELSE [found |-> TRUE, positionAmt |-> amt]

\* mutation of PositionNotOpened: a tolerance of 0.8 for 0.9
PositionNotOpened_Loose(p, q) ==
    ~p.found \/ 10 * Abs(p.positionAmt) < 8 * q

\* not pos or abs(float(pos.get('positionAmt', 0))) < qty * 0.9
PositionNotOpened(p, q) ==
    ~p.found \/ 10 * Abs(p.positionAmt) < 9 * q

\* number of open orders of type TAKE_PROFIT_MARKET
CountTp(orders) ==
    Cardinality({i \in 1..Len(orders) : orders[i].type = "TAKE_PROFIT_MARKET"})

\* mutation of TpCountMismatch: only a missing order counts as a mismatch
TpCountMismatch_Fewer(orders, n) == CountTp(orders) < n

\* mutation of TpCountMismatch: the type filter is forgotten
TpCountMismatch_AllOrders(orders, n) == Len(orders) # n

\* len([o for o in orders if o['type'] == 'TAKE_PROFIT_MARKET']) != len(tp_prices)
TpCountMismatch(orders, n) == CountTp(orders) # n

\* qty * 0.99
RetryQty(q) == (q * 99) \div 100

\* VOL_PERIOD: the number of candles check_volume_filter asks for
VOL_PERIOD == 60

\* user_data.get("volume_multiplier", 2.0)
VolumeMultiplier == 2

\* the candles get_klines returns, by what check_volume_filter reads of
\* them: their number, the sum of the volumes of all but the last, and the
\* volume of the last
Klines(len, prev_sum, last) == [len |-> len, prev_sum |-> prev_sum, last |-> last]

NoKlines == Klines(0, 0, 0)

\* the answers of the candle request: one candle too few, and a full window
\* of previous volume 10 each with a latest volume just below and at twice
\* the mean
KlinesAnswers ==
    {Klines(VOL_PERIOD - 1, 10 * (VOL_PERIOD - 2), 30)}
    \cup {Klines(VOL_PERIOD, 10 * (VOL_PERIOD - 1), last) : last \in {19, 20}}

\* mutation of check_volume_filter: the length check is forgotten
check_volume_filter_NoLength(k, multiplier) ==
    k.last * (k.len - 1) >= k.prev_sum * multiplier

\* check_volume_filter: False below VOL_PERIOD candles, else
\* latest >= sum(previous) / len(previous) * multiplier
check_volume_filter(k, multiplier) ==
    IF k.len < VOL_PERIOD
    THEN FALSE
    ELSE k.last * (k.len - 1) >= k.prev_sum * multiplier

\* ------------------------------------------------------------------- state
VARIABLES
    pc,             \* position in open_trade_for_user
    user_data,      \* the subscriber's configuration
    bound,          \* the locals of open_trade_for_user assigned so far
    qty,            \* local qty
    one_way_mode,   \* local one_way_mode
    resp,           \* local resp: code of the last answered entry order
    pos,            \* local pos
    resp_tps,       \* local resp_tps: codes of the first take-profit split
    retry_resp,     \* local retry_resp: codes of the second split
    split_qty,      \* set_multiple_tp: parameter qty of the call in progress
    qty_tp,         \* set_multiple_tp: local qty_tp
    answer,         \* set_multiple_tp: local answer
    orders,         \* local orders of the take-profit check
    klines,         \* check_volume_filter: local klines
    to_cancel,      \* cancel_existing_orders: orders still to visit
    failure,        \* the first failure the attempt met ("none")
    calls,          \* every request made so far, with its answer
    msgs,           \* the messages sent to the subscriber
    exPos,          \* exchange: size of the position of the symbol
    exOrders,       \* exchange: open orders of the symbol
    nextId,         \* exchange: next order id
    file,           \* users.json: the stored subscribers, in order
    users,          \* the global users dictionary of the bot process
    now,            \* datetime.utcnow(), in hours
    scan,           \* main(): number of passes started
    wpc,            \* check_symbol: position of the worker of each symbol
    scan_users,     \* check_symbol: local users of each worker
    idx,            \* check_symbol: position of each worker in its loop
    market,         \* check_symbol: the market data each worker fetched
    alerts,         \* check_symbol: the alerts each worker has sent
    tasks,          \* open_trade_for_user calls handed over, not begun
    submitted,      \* every open_trade_for_user call handed over so far
    started,        \* the calls of the current pass that reached the exchange
    changes,        \* number of settings commands handled
    fn_args,        \* the arguments a quantity computation is applied to
    fn_result       \* the quantities that computation produced

attemptVars ==
    <<pc, user_data, bound, qty, one_way_mode, resp, pos, resp_tps,
      retry_resp, split_qty, qty_tp, answer, orders, to_cancel, failure,
      calls, msgs, exPos, exOrders, nextId, klines>>

scanVars ==
    <<file, users, now, scan, wpc, scan_users, idx, market, alerts, tasks,
      submitted, started, changes>>

pureVars == <<fn_args, fn_result>>

vars == <<attemptVars, scanVars, pureVars>>

\* one logged request and its answer (quantity: the quantity of an order,
\* the orderId of a cancel)
Call(op, positionSide, quantity, reduceOnly, code) ==
    [op |-> op, positionSide |-> positionSide, quantity |-> quantity,
     reduceOnly |-> reduceOnly, code |-> code]

Log(c) == calls' = Append(calls, c)

Users ==
    [ exists : BOOLEAN,
      blacklisted : BOOLEAN,
      trailing_enabled : BOOLEAN,
      volume_filter_enabled : BOOLEAN,
      n_tp : 1..MaxLevels,
      plan_qty : Qtys ]

\* the locals of open_trade_for_user and the exchange before the attempt
AttemptInit ==
    /\ pc = "start"
    /\ user_data \in Users
    /\ bound = {}
    /\ qty = 0
    /\ one_way_mode = FALSE
    /\ resp = 0
    /\ pos = NoPos
    /\ resp_tps = <<>>
    /\ retry_resp = <<>>
    /\ split_qty = 0
    /\ qty_tp = 0
    /\ answer = <<>>
    /\ orders = <<>>
    /\ to_cancel = <<>>
    /\ failure = "none"
    /\ calls = <<>>
    /\ msgs = <<>>
    /\ exPos = 0
    /\ exOrders = <<>>
    /\ nextId = 1
    /\ klines = NoKlines

\* the symbols the scan visits
Symbols == {"S1", "S2"}

\* a dictionary without keys (last_signal_time of a new subscriber)
EmptyMap == [x \in {} |-> 0]

\* check_symbol before it fetched anything
NoMarket ==
    [raises |-> FALSE, oi_points |-> 0, kline_points |-> 0, oi_now |-> 0,
     oi_4h_ago |-> 0, oi_24h_ago |-> 0, price_now |-> 0, price_4h_ago |-> 0,
     price_24h_ago |-> 0]

\* no scan is running and no subscriber is stored
ScanIdle ==
    /\ file = <<>>
    /\ users = <<>>
    /\ now = 0
    /\ scan = 0
    /\ wpc = [s \in Symbols |-> "idle"]
    /\ scan_users = [s \in Symbols |-> <<>>]
    /\ idx = [s \in Symbols |-> 0]
    /\ market = [s \in Symbols |-> NoMarket]
    /\ alerts = [s \in Symbols |-> {}]
    /\ tasks = {}
    /\ submitted = {}
    /\ started = {}
    /\ changes = 0

\* no quantity computation is under study
NoArgs == [fn |-> "none"]

PureIdle ==
    /\ fn_args = NoArgs
    /\ fn_result = <<>>

Init == AttemptInit /\ ScanIdle /\ PureIdle

\* an exception is raised inside the try block: control moves to line 313
RaiseTo(reason) ==
    /\ pc' = "except"
    /\ failure' = IF failure = "none" THEN reason ELSE failure

\* the function returns
ReturnWith(reason) ==
    /\ pc' = "done"
    /\ failure' = IF failure = "none" THEN reason ELSE failure

\* the exchange accepts an order that is to stay open
ExchangeAdd(type) ==
    /\ exOrders' = Append(exOrders, [orderId |-> nextId, type |-> type])
    /\ nextId' = nextId + 1

\* lines 220-230: unknown user or blacklisted symbol: return
Start ==
    /\ pc = "start"
    /\ IF ~user_data.exists
       THEN ReturnWith("no_user")
       ELSE IF user_data.blacklisted
            THEN ReturnWith("blacklisted")
            ELSE pc' = "leverage" /\ UNCHANGED failure
    /\ UNCHANGED <<user_data, bound, qty, one_way_mode, resp, pos, resp_tps,
                   retry_resp, split_qty, qty_tp, answer, orders, to_cancel,
                   calls, msgs, exPos, exOrders, nextId>>
    /\ UNCHANGED klines
    /\ UNCHANGED scanVars
    /\ UNCHANGED pureVars

\* lines 239-240: set_leverage under the hedge convention
SetLeverage ==
    /\ pc = "leverage"
    /\ \E r \in {0, CodeModeMismatch, CodeRejected, Raise} :
        /\ Log(Call("leverage", SetLeverageSide(FALSE), 0, FALSE, r))
        /\ IF r = Raise THEN RaiseTo("exception")
           ELSE /\ pc' = IF r # 0 THEN "leverage_retry" ELSE "prepare"
                /\ UNCHANGED failure
    /\ UNCHANGED <<user_data, bound, qty, one_way_mode, resp, pos, resp_tps,
                   retry_resp, split_qty, qty_tp, answer, orders, to_cancel,
                   msgs, exPos, exOrders, nextId>>
    /\ UNCHANGED klines
    /\ UNCHANGED scanVars
    /\ UNCHANGED pureVars

\* line 241: the retry of set_leverage with one_way_mode = True
SetLeverageOneWay ==
    /\ pc = "leverage_retry"
    /\ \E r \in {0, CodeRejected, Raise} :
        /\ Log(Call("leverage", SetLeverageSide(TRUE), 0, FALSE, r))
        /\ IF r = Raise THEN RaiseTo("exception")
           ELSE pc' = "prepare" /\ UNCHANGED failure
    /\ UNCHANGED <<user_data, bound, qty, one_way_mode, resp, pos, resp_tps,
                   retry_resp, split_qty, qty_tp, answer, orders, to_cancel,
                   msgs, exPos, exOrders, nextId>>
    /\ UNCHANGED klines
    /\ UNCHANGED scanVars
    /\ UNCHANGED pureVars

\* lines 244-263: the order plan, the volume filter (lines 211-217),
\* one_way_mode = False
Prepare ==
    /\ pc = "prepare"
    /\ qty' = user_data.plan_qty
    /\ IF user_data.volume_filter_enabled
       THEN \/ /\ Log(Call("klines", "-", 0, FALSE, Raise))
               /\ RaiseTo("exception")
               /\ bound' = bound \cup {"qty"}
               /\ UNCHANGED klines
            \/ \E k \in KlinesAnswers :
                 /\ Log(Call("klines", "-", 0, FALSE, 0))
                 /\ klines' = k
                 /\ IF ~check_volume_filter(k, VolumeMultiplier)
                    THEN /\ ReturnWith("volume_filter")
                         /\ bound' = bound \cup {"qty", "klines"}
                    ELSE /\ pc' = "entry"
                         /\ bound' = bound \cup {"qty", "klines", "one_way_mode"}
                         /\ UNCHANGED failure
       ELSE /\ pc' = "entry"
            /\ bound' = bound \cup {"qty", "one_way_mode"}
            /\ UNCHANGED <<failure, calls, klines>>
    /\ UNCHANGED <<user_data, one_way_mode, resp, pos, resp_tps, retry_resp,
                   split_qty, qty_tp, answer, orders, to_cancel, msgs, exPos,
                   exOrders, nextId>>
    /\ UNCHANGED scanVars
    /\ UNCHANGED pureVars

\* the exchange accepts the entry order: a position of some size and the
\* attached stop-loss order exist afterwards
EntryAccepted ==
    /\ exPos' \in FillAmts(qty)
    /\ ExchangeAdd("STOP_MARKET")

\* lines 265-275: the entry order under the hedge convention
PlaceEntry ==
    /\ pc = "entry"
    /\ \E r \in {0, CodeModeMismatch, CodeSymbolUnavailable, CodeRejected, Raise} :
        /\ Log(Call("entry", PlaceMarketOrderSide("long", FALSE), qty, FALSE, r))
        /\ IF r = Raise
           THEN /\ RaiseTo("exception")
                /\ UNCHANGED <<bound, resp, one_way_mode, exPos, exOrders, nextId>>
           ELSE /\ resp' = r
                /\ bound' = bound \cup {"resp"}
                /\ IF r = 0 THEN EntryAccepted
                   ELSE UNCHANGED <<exPos, exOrders, nextId>>
                /\ IF r = CodeModeMismatch
                   THEN /\ one_way_mode' = TRUE
                        /\ pc' = "entry_retry"
                        /\ UNCHANGED failure
                   ELSE IF r = CodeSymbolUnavailable
                   THEN /\ ReturnWith("symbol_unavailable")
                        /\ UNCHANGED one_way_mode
                   ELSE IF r # 0
                   THEN /\ RaiseTo("entry_rejected")
                        /\ UNCHANGED one_way_mode
                   ELSE /\ pc' = "positions"
                        /\ UNCHANGED <<failure, one_way_mode>>
    /\ UNCHANGED <<user_data, qty, pos, resp_tps, retry_resp, split_qty,
                   qty_tp, answer, orders, to_cancel, msgs>>
    /\ UNCHANGED klines
    /\ UNCHANGED scanVars
    /\ UNCHANGED pureVars

\* mutation of PlaceEntryOneWay: a rejected entry is submitted again until
\* the exchange accepts it
PlaceEntryOneWay_Again ==
    /\ pc = "entry_retry"
    /\ \E r \in {0, CodeRejected, Raise} :
        /\ Log(Call("entry", PlaceMarketOrderSide("long", one_way_mode), qty, FALSE, r))
        /\ IF r = Raise
           THEN /\ RaiseTo("exception")
                /\ UNCHANGED <<resp, exPos, exOrders, nextId>>
           ELSE /\ resp' = r
                /\ IF r = 0 THEN EntryAccepted
                   ELSE UNCHANGED <<exPos, exOrders, nextId>>
                /\ pc' = IF r = 0 THEN "positions" ELSE "entry_retry"
                /\ UNCHANGED failure
    /\ UNCHANGED <<user_data, bound, qty, one_way_mode, pos, resp_tps,
                   retry_resp, split_qty, qty_tp, answer, orders, to_cancel,
                   msgs>>
    /\ UNCHANGED klines
    /\ UNCHANGED scanVars
    /\ UNCHANGED pureVars

\* line 269: the entry order again with pos_side_BOTH = True; its answer is
\* assigned to resp and not examined
PlaceEntryOneWay ==
    /\ pc = "entry_retry"
    /\ \E r \in {0, CodeRejected, Raise} :
        /\ Log(Call("entry", PlaceMarketOrderSide("long", one_way_mode), qty, FALSE, r))
        /\ IF r = Raise
           THEN /\ RaiseTo("exception")
                /\ UNCHANGED <<resp, exPos, exOrders, nextId>>
           ELSE /\ resp' = r
                /\ IF r = 0 THEN EntryAccepted
                   ELSE UNCHANGED <<exPos, exOrders, nextId>>
                /\ pc' = "positions"
                /\ UNCHANGED failure
    /\ UNCHANGED <<user_data, bound, qty, one_way_mode, pos, resp_tps,
                   retry_resp, split_qty, qty_tp, answer, orders, to_cancel,
                   msgs>>
    /\ UNCHANGED klines
    /\ UNCHANGED scanVars
    /\ UNCHANGED pureVars

\* lines 278-284: get_positions (1: answered with code 0, else the list is
\* empty), the 90% test, the "order placed" message
VerifyPosition ==
    /\ pc = "positions"
    /\ \E r \in {0, CodeRejected, Raise} :
        /\ Log(Call("positions", "-", 0, FALSE, r))
        /\ IF r = Raise
           THEN /\ RaiseTo("exception")
                /\ UNCHANGED <<pos, bound, msgs>>
           ELSE LET p == IF r = 0 THEN PosOf(exPos) ELSE NoPos IN
                /\ pos' = p
                /\ bound' = bound \cup {"pos"}
                /\ IF PositionNotOpened(p, qty)
                   THEN /\ pc' = "close_not_opened"
                        /\ failure' = "position_not_opened"
                        /\ UNCHANGED msgs
                   ELSE /\ pc' = "tp_first"
                        /\ msgs' = Append(msgs, "order_placed")
                        /\ UNCHANGED failure
    /\ UNCHANGED <<user_data, qty, one_way_mode, resp, resp_tps, retry_resp,
                   split_qty, qty_tp, answer, orders, to_cancel, exPos,
                   exOrders, nextId>>
    /\ UNCHANGED klines
    /\ UNCHANGED scanVars
    /\ UNCHANGED pureVars

\* a reduce-only close: place_market_order('short', qty, s,
\* pos_side_BOTH = one_way_mode, reduceOnly = True) and the exchange's part
CloseRequest(r) ==
    /\ Log(Call("close", PlaceMarketOrderSide("short", one_way_mode), qty, TRUE, r))
    /\ exPos' = IF r = 0 THEN 0 ELSE exPos

\* lines 281-282: close, then raise ValueError("Position not opened properly")
CloseNotOpened ==
    /\ pc = "close_not_opened"
    /\ \E r \in {0, CodeRejected, Raise} : CloseRequest(r)
    /\ RaiseTo("position_not_opened")
    /\ UNCHANGED <<user_data, bound, qty, one_way_mode, resp, pos, resp_tps,
                   retry_resp, split_qty, qty_tp, answer, orders, to_cancel,
                   msgs, exOrders, nextId>>
    /\ UNCHANGED klines
    /\ UNCHANGED scanVars
    /\ UNCHANGED pureVars

\* lines 287 / 289 and bingx_client 214-228: get_mark_price (which never
\* raises) and the head of set_multiple_tp
BeginSplit ==
    /\ pc \in {"tp_first", "tp_retry"}
    /\ \E precision \in MarkPrecisions :
        LET q == IF pc = "tp_first" THEN qty ELSE RetryQty(qty) IN
        /\ split_qty' = q
        /\ qty_tp' = QtyTp(q, user_data.n_tp, precision)
    /\ answer' = <<>>
    /\ pc' = IF pc = "tp_first" THEN "tp_level_first" ELSE "tp_level_retry"
    /\ UNCHANGED <<user_data, bound, qty, one_way_mode, resp, pos, resp_tps,
                   retry_resp, orders, to_cancel, failure, calls, msgs,
                   exPos, exOrders, nextId>>
    /\ UNCHANGED klines
    /\ UNCHANGED scanVars
    /\ UNCHANGED pureVars

\* bingx_client 230-249: one take-profit order of the split; an exception
\* is caught and recorded as code 1.  After the last level: lines 288-290.
PlaceTakeProfit ==
    /\ pc \in {"tp_level_first", "tp_level_retry"}
    /\ Len(answer) < user_data.n_tp
    /\ \E r \in {0, CodeRejected, Raise} :
        LET code == IF r = Raise THEN CodeTpException ELSE r
            ans  == Append(answer, code)
            last == Len(ans) = user_data.n_tp
        IN
        /\ Log(Call("tp", SetMultipleTpSide("long", one_way_mode), qty_tp, FALSE, r))
        /\ IF r = 0 THEN ExchangeAdd("TAKE_PROFIT_MARKET")
           ELSE UNCHANGED <<exOrders, nextId>>
        /\ answer' = ans
        /\ IF ~last
           THEN UNCHANGED <<pc, resp_tps, retry_resp, bound, failure>>
           ELSE IF pc = "tp_level_first"
           THEN /\ resp_tps' = ans
                /\ bound' = bound \cup {"resp_tps"}
                /\ pc' = IF AnyFailed(ans) THEN "tp_retry" ELSE "orders"
                /\ UNCHANGED <<retry_resp, failure>>
           ELSE /\ retry_resp' = ans
                /\ bound' = bound \cup {"retry_resp"}
                /\ IF AnyFailed(ans)
                   THEN pc' = "close_tp_failed" /\ failure' = "tp_placement_failed"
                   ELSE pc' = "orders" /\ UNCHANGED failure
                /\ UNCHANGED resp_tps
    /\ UNCHANGED <<user_data, qty, one_way_mode, resp, pos, split_qty, qty_tp,
                   orders, to_cancel, msgs, exPos>>
    /\ UNCHANGED klines
    /\ UNCHANGED scanVars
    /\ UNCHANGED pureVars

\* lines 291-293: close, message, return
CloseTpFailed ==
    /\ pc = "close_tp_failed"
    /\ \E r \in {0, CodeRejected, Raise} :
        /\ CloseRequest(r)
        /\ IF r = Raise
           THEN RaiseTo("exception") /\ UNCHANGED msgs
           ELSE /\ msgs' = Append(msgs, "tp_failed_closed")
                /\ ReturnWith("tp_placement_failed")
    /\ UNCHANGED <<user_data, bound, qty, one_way_mode, resp, pos, resp_tps,
                   retry_resp, split_qty, qty_tp, answer, orders, to_cancel,
                   exOrders, nextId>>
    /\ UNCHANGED klines
    /\ UNCHANGED scanVars
    /\ UNCHANGED pureVars

\* bingx_client 86-93: the list get_open_orders returns for response code r
OpenOrdersResult(r) == IF r = 0 THEN exOrders ELSE <<>>

\* lines 296-297 and 304: get_open_orders and the count of take-profits
VerifyTakeProfits ==
    /\ pc = "orders"
    /\ \E r \in {0, CodeRejected, Raise} :
        /\ Log(Call("orders", "-", 0, FALSE, r))
        /\ IF r = Raise
           THEN /\ RaiseTo("exception")
                /\ UNCHANGED <<orders, bound>>
           ELSE /\ orders' = OpenOrdersResult(r)
                /\ bound' = bound \cup {"orders"}
                /\ IF TpCountMismatch(OpenOrdersResult(r), user_data.n_tp)
                   THEN pc' = "cancel" /\ failure' = "tp_count_mismatch"
                   ELSE /\ pc' = IF user_data.trailing_enabled
                                 THEN "trailing" ELSE "done"
                        /\ UNCHANGED failure
    /\ UNCHANGED <<user_data, qty, one_way_mode, resp, pos, resp_tps,
                   retry_resp, split_qty, qty_tp, answer, to_cancel, msgs,
                   exPos, exOrders, nextId>>
    /\ UNCHANGED klines
    /\ UNCHANGED scanVars
    /\ UNCHANGED pureVars

\* line 298, bingx_client 107: cancel_existing_orders fetches the open orders
CancelExistingOrders ==
    /\ pc = "cancel"
    /\ \E r \in {0, CodeRejected, Raise} :
        /\ Log(Call("cancel_all", "-", 0, FALSE, r))
        /\ IF r = Raise
           THEN RaiseTo("exception") /\ UNCHANGED to_cancel
           ELSE /\ to_cancel' = OpenOrdersResult(r)
                /\ pc' = IF OpenOrdersResult(r) = <<>>
                         THEN "close_mismatch" ELSE "cancel_order"
                /\ UNCHANGED failure
    /\ UNCHANGED <<user_data, bound, qty, one_way_mode, resp, pos, resp_tps,
                   retry_resp, split_qty, qty_tp, answer, orders, msgs,
                   exPos, exOrders, nextId>>
    /\ UNCHANGED klines
    /\ UNCHANGED scanVars
    /\ UNCHANGED pureVars

\* the exchange's open orders without the order of the given id
ExchangeRemove(id) == SelectSeq(exOrders, LAMBDA o : o.orderId # id)

\* bingx_client 109-115: cancel_order for the next order of the list
CancelOrder ==
    /\ pc = "cancel_order"
    /\ to_cancel # <<>>
    /\ LET order == Head(to_cancel) IN
       IF order.orderId = 0
       THEN /\ to_cancel' = Tail(to_cancel)
            /\ pc' = IF Tail(to_cancel) = <<>> THEN "close_mismatch" ELSE pc
            /\ UNCHANGED <<failure, calls, exOrders>>
       ELSE \E r \in {0, CodeRejected, Raise} :
            /\ Log(Call("cancel", "-", order.orderId, FALSE, r))
            /\ exOrders' = IF r = 0 THEN ExchangeRemove(order.orderId)
                           ELSE exOrders
            /\ IF r = Raise
               THEN RaiseTo("exception") /\ UNCHANGED to_cancel
               ELSE /\ to_cancel' = Tail(to_cancel)
                    /\ pc' = IF Tail(to_cancel) = <<>>
                             THEN "close_mismatch" ELSE pc
                    /\ UNCHANGED failure
    /\ UNCHANGED <<user_data, bound, qty, one_way_mode, resp, pos, resp_tps,
                   retry_resp, split_qty, qty_tp, answer, orders, msgs,
                   exPos, nextId>>
    /\ UNCHANGED klines
    /\ UNCHANGED scanVars
    /\ UNCHANGED pureVars

\* lines 299-301: close, message, return
CloseMismatch ==
    /\ pc = "close_mismatch"
    /\ \E r \in {0, CodeRejected, Raise} :
        /\ CloseRequest(r)
        /\ IF r = Raise
           THEN RaiseTo("exception") /\ UNCHANGED msgs
           ELSE /\ msgs' = Append(msgs, "not_all_tps_closed")
                /\ ReturnWith("tp_count_mismatch")
    /\ UNCHANGED <<user_data, bound, qty, one_way_mode, resp, pos, resp_tps,
                   retry_resp, split_qty, qty_tp, answer, orders, to_cancel,
                   exOrders, nextId>>
    /\ UNCHANGED klines
    /\ UNCHANGED scanVars
    /\ UNCHANGED pureVars

\* lines 304-311: set_trailing; a non-zero code is logged as a warning
SetTrailing ==
    /\ pc = "trailing"
    /\ \E r \in {0, CodeRejected, Raise} :
        /\ Log(Call("trailing", SetTrailingSide("long"), qty, FALSE, r))
        /\ IF r = Raise THEN RaiseTo("trailing_failed")
           ELSE IF r # 0 THEN ReturnWith("trailing_failed")
           ELSE pc' = "done" /\ UNCHANGED failure
        /\ IF r = 0 THEN ExchangeAdd("TRAILING_TP_SL")
           ELSE UNCHANGED <<exOrders, nextId>>
    /\ UNCHANGED <<user_data, bound, qty, one_way_mode, resp, pos, resp_tps,
                   retry_resp, split_qty, qty_tp, answer, orders, to_cancel,
                   msgs, exPos>>
    /\ UNCHANGED klines
    /\ UNCHANGED scanVars
    /\ UNCHANGED pureVars

\* lines 313-315: the except clause formats its message with resp; when resp
\* was never assigned that raises UnboundLocalError out of the function
Except ==
    /\ pc = "except"
    /\ IF "resp" \in bound
       THEN /\ msgs' = Append(msgs, "error")
            /\ pc' = "except_close"
       ELSE /\ pc' = "crashed"
            /\ UNCHANGED msgs
    /\ UNCHANGED <<user_data, bound, qty, one_way_mode, resp, pos, resp_tps,
                   retry_resp, split_qty, qty_tp, answer, orders, to_cancel,
                   failure, calls, exPos, exOrders, nextId>>
    /\ UNCHANGED klines
    /\ UNCHANGED scanVars
    /\ UNCHANGED pureVars

\* lines 316-319: the close of the except clause; its own exception is
\* swallowed
ExceptClose ==
    /\ pc = "except_close"
    /\ \E r \in {0, CodeRejected, Raise} : CloseRequest(r)
    /\ pc' = "done"
    /\ UNCHANGED <<user_data, bound, qty, one_way_mode, resp, pos, resp_tps,
                   retry_resp, split_qty, qty_tp, answer, orders, to_cancel,
                   failure, msgs, exOrders, nextId>>
    /\ UNCHANGED klines
    /\ UNCHANGED scanVars
    /\ UNCHANGED pureVars

Next ==
    \/ Start
    \/ SetLeverage
    \/ SetLeverageOneWay
    \/ Prepare
    \/ PlaceEntry
    \/ PlaceEntryOneWay
    \/ VerifyPosition
    \/ CloseNotOpened
    \/ BeginSplit
    \/ PlaceTakeProfit
    \/ CloseTpFailed
    \/ VerifyTakeProfits
    \/ CancelExistingOrders
    \/ CancelOrder
    \/ CloseMismatch
    \/ SetTrailing
    \/ Except
    \/ ExceptClose

Spec == Init /\ [][Next]_vars

\* ------------------------------------------------------ check_symbol (pure)

\* pct(now, past) without its factor 100.0, as the fraction num / den:
\* 0.0 when past == 0, else (now - past) / past
pct(now_value, past) ==
    IF past = 0
    THEN [num |-> 0, den |-> 1]
    ELSE [num |-> now_value - past, den |-> past]

\* growth >= threshold, for a growth in % and a positive denominator
AtLeast(growth, threshold) == growth.num * 100 >= threshold * growth.den

\* price_growth <= oi_growth * price_oi_ratio, the ratio counted in tenths
WithinRatio(price_growth, oi_growth, ratio) ==
    price_growth.num * oi_growth.den * 10 <= oi_growth.num * ratio * price_growth.den

\* line 154
signal_4h(user, m) ==
    /\ AtLeast(pct(m.oi_now, m.oi_4h_ago), OI_4H_THRESHOLD)
    /\ WithinRatio(pct(m.price_now, m.price_4h_ago),
                   pct(m.oi_now, m.oi_4h_ago), user.price_oi_ratio)
    /\ user.signals_4h_enabled

\* line 155
signal_24h(user, m) ==
    /\ AtLeast(pct(m.oi_now, m.oi_24h_ago), OI_24H_THRESHOLD)
    /\ WithinRatio(pct(m.price_now, m.price_24h_ago),
                   pct(m.oi_now, m.oi_24h_ago), user.price_oi_ratio)
    /\ user.signals_24h_enabled

\* mutation of Period: the two labels are swapped
Period_Swapped(s4) == IF s4 THEN "24h" ELSE "4h"

\* line 160: period = "4h" if signal_4h else "24h"
Period(s4) == IF s4 THEN "4h" ELSE "24h"

\* mutation of InCooldown: the window is one hour short
InCooldown_Short(last_signals, symbol, t) ==
    /\ symbol \in DOMAIN last_signals
    /\ t - last_signals[symbol] < SIGNAL_COOLDOWN_HOURS - 1

\* line 181: the symbol has a stored time less than the cooldown ago
InCooldown(last_signals, symbol, t) ==
    /\ symbol \in DOMAIN last_signals
    /\ t - last_signals[symbol] < SIGNAL_COOLDOWN_HOURS

\* mutation of Blacklisted: the test is left out
Blacklisted_Skipped(user, symbol) == FALSE

\* lines 188 and 228: symbol in user_data.get("blacklist", [])
Blacklisted(user, symbol) == symbol \in user.blacklist

\* last_signals[symbol] = t
Put(last_signals, symbol, t) ==
    [x \in DOMAIN last_signals \cup {symbol} |->
        IF x = symbol THEN t ELSE last_signals[x]]

\* mutation of SaveUsers: the dictionary is not written
SaveUsers_Skipped(store, snapshot) == store

\* save_users(users): the file holds the dictionary it was given, whatever
\* it held before
SaveUsers(store, snapshot) == snapshot

\* del users[chat_id_str]
RemoveUser(store, chat_id) ==
    SelectSeq(store, LAMBDA u : u.chat_id # chat_id)

\* a full history: open interest and price now, 4 hours and 24 hours ago
Market(oi_4h_ago, price_4h_ago, oi_24h_ago) ==
    [raises |-> FALSE, oi_points |-> OiHistPoints24h,
     kline_points |-> OiHistPoints24h, oi_now |-> 550000,
     oi_4h_ago |-> oi_4h_ago, oi_24h_ago |-> oi_24h_ago, price_now |-> 210,
     price_4h_ago |-> price_4h_ago, price_24h_ago |-> 195]

\* both periods fire, for the ratio 0.5 and for 0.7
MarketBoth == Market(500000, 200, 470000)

\* the market data the worker of a symbol can be answered with: a failing
\* request or both periods firing and, for the first symbol, also a
\* history one point short, an open interest below MIN_OI_USDT, the 4h
\* period firing for the ratio 0.7 only, the 24h period alone, nothing, and
\* both periods firing on 24h candles one short
MarketAnswers(s) ==
    {[NoMarket EXCEPT !.raises = TRUE], MarketBoth}
    \cup
    IF s # "S1" THEN {}
    ELSE { [NoMarket EXCEPT !.oi_points = OiHistPoints24h - 1],
           [NoMarket EXCEPT !.oi_points = OiHistPoints24h,
                            !.oi_now = MIN_OI_USDT - 1],
           Market(500000, 198, 480000),
           Market(505000, 200, 470000),
           Market(505000, 200, 480000),
           [MarketBoth EXCEPT !.kline_points = OiHistPoints24h - 1] }

\* a subscriber with trading switched on, a price_oi_ratio counted in
\* tenths, and the other settings as start() stores them
StoredUser(chat_id, ratio) ==
    [chat_id |-> chat_id, trading_enabled |-> TRUE, price_oi_ratio |-> ratio,
     signals_4h_enabled |-> TRUE, signals_24h_enabled |-> TRUE,
     blacklist |-> {}, last_signal_time |-> EmptyMap]

\* the subscribers stored when the bot starts: the first with the default
\* ratio 0.5, the second with 0.7
StoredUsers == <<StoredUser("u1", 5), StoredUser("u2", 7)>>

\* the hours that pass from one pass to the next one in which a symbol is
\* looked at again: around the cooldown
ElapsedHours ==
    {SIGNAL_COOLDOWN_HOURS - 1, SIGNAL_COOLDOWN_HOURS, SIGNAL_COOLDOWN_HOURS + 1}

\* the symbols a /blacklist_add command names
BlacklistCommands == {"S1"}

\* the flags the modelled buttons of the settings menu toggle
ToggleFields == {"trading_enabled", "signals_4h_enabled"}

\* what happens to an alert: delivered, lost, or refused because the
\* subscriber blocked the bot
AlertResults == {"sent", "failed", "blocked"}

\* one call of open_trade_for_user handed to the executor
Task(chat_id, symbol, period) ==
    [chat_id |-> chat_id, symbol |-> symbol, period |-> period]

\* every call that can be handed over
Tasks ==
    {Task(StoredUsers[i].chat_id, s, period) :
        i \in 1..Len(StoredUsers), s \in Symbols, period \in {"4h", "24h"}}

\* the hand-over as history: who, which symbol, when, in which pass
Submission(chat_id, symbol, t, n) ==
    [chat_id |-> chat_id, symbol |-> symbol, time |-> t, scan |-> n]

\* ------------------------------------------------------------ the scan

\* line 47: users = load_users() when the bot starts; no attempt is modelled
InitScan ==
    /\ AttemptInit
    /\ PureIdle
    /\ user_data = [exists |-> FALSE, blacklisted |-> FALSE,
                    trailing_enabled |-> FALSE, volume_filter_enabled |-> FALSE,
                    n_tp |-> 1, plan_qty |-> 10 * Scale]
    /\ file = StoredUsers
    /\ users = file
    /\ now = 0
    /\ scan = 0
    /\ wpc = [s \in Symbols |-> "idle"]
    /\ scan_users = [s \in Symbols |-> <<>>]
    /\ idx = [s \in Symbols |-> 0]
    /\ market = [s \in Symbols |-> NoMarket]
    /\ alerts = [s \in Symbols |-> {}]
    /\ tasks = {}
    /\ submitted = {}
    /\ started = {}
    /\ changes = 0

\* no worker of the current pass is running
ScanFinished == \A s \in Symbols : wpc[s] \in {"idle", "done"}

\* main(), lines 686-698: after the sleep, one pass starts a worker for
\* every symbol and waits for all of them
ScanStart ==
    /\ scan < MaxScans
    /\ ScanFinished
    /\ tasks = {}
    /\ scan' = scan + 1
    /\ \E elapsed \in IF scan = 0 THEN {0} ELSE ElapsedHours : now' = now + elapsed
    /\ wpc' = [s \in Symbols |-> "fetch"]
    /\ started' = {}
    /\ UNCHANGED <<file, users, scan_users, idx, market, alerts, tasks,
                   submitted, changes>>
    /\ UNCHANGED attemptVars
    /\ UNCHANGED pureVars

\* mutation of ExceptReturn: the exception leaves check_symbol and is raised
\* again by future.result() in main (line 692), which ends the loop
ExceptReturn_Reraised == "raised"

\* lines 194-195: the except clause logs the error and check_symbol returns
ExceptReturn == "return"

\* check_symbol, lines 117-147: the market data, the early returns and
\* users = load_users(); an empty candle list raises IndexError at line 137
CheckSymbolFetch(s) ==
    /\ wpc[s] = "fetch"
    /\ \E m \in MarketAnswers(s) :
        /\ market' = [market EXCEPT ![s] = m]
        /\ IF m.raises
           THEN /\ wpc' = [wpc EXCEPT ![s] = ExceptReturn]
                /\ UNCHANGED <<scan_users, idx>>
           ELSE IF \/ m.oi_points < OiHistPoints24h
                   \/ m.oi_now < MIN_OI_USDT
           THEN /\ wpc' = [wpc EXCEPT ![s] = "return"]
                /\ UNCHANGED <<scan_users, idx>>
           ELSE IF m.kline_points = 0
           THEN /\ wpc' = [wpc EXCEPT ![s] = ExceptReturn]
                /\ UNCHANGED <<scan_users, idx>>
           ELSE /\ scan_users' = [scan_users EXCEPT ![s] = file]
                /\ idx' = [idx EXCEPT ![s] = 1]
                /\ wpc' = [wpc EXCEPT ![s] = IF file = <<>> THEN "return" ELSE "loop"]
    /\ UNCHANGED <<file, users, now, scan, alerts, tasks, submitted, started,
                   changes>>
    /\ UNCHANGED attemptVars
    /\ UNCHANGED pureVars

\* check_symbol, lines 148-186: one iteration of the loop over the
\* subscribers, with send_alert (lines 68-84), up to save_users; an accepted
\* trigger goes on to lines 188-192
CheckSymbolUser(s) ==
    /\ wpc[s] = "loop"
    /\ LET i == idx[s]
           u == scan_users[s][i]
           s4 == signal_4h(u, market[s])
           s24 == signal_24h(u, market[s])
           last_signals == u.last_signal_time
           stamped == [scan_users[s] EXCEPT
                          ![i].last_signal_time = Put(last_signals, s, now)]
       IN IF ~(s4 \/ s24)
          THEN \* line 158: return None
               /\ wpc' = [wpc EXCEPT ![s] = "return"]
               /\ UNCHANGED <<file, scan_users, idx, alerts, tasks, submitted>>
          ELSE \E result \in AlertResults :
               /\ alerts' = [alerts EXCEPT ![s] = @ \cup
                      {[chat_id |-> u.chat_id, period |-> Period(s4)]}]
               /\ IF u.trading_enabled /\ ~InCooldown(last_signals, s, now)
                  THEN \* lines 184-186, after the write of send_alert if any
                       /\ scan_users' = [scan_users EXCEPT ![s] = stamped]
                       /\ file' = SaveUsers(file, stamped)
                       /\ wpc' = [wpc EXCEPT ![s] = "submit"]
                       /\ UNCHANGED idx
                  ELSE /\ file' = IF result = "blocked"
                                  THEN RemoveUser(file, u.chat_id)
                                  ELSE file
                       /\ idx' = [idx EXCEPT ![s] = i + 1]
                       /\ wpc' = [wpc EXCEPT ![s] =
                                     IF i < Len(scan_users[s])
                                     THEN "loop" ELSE "return"]
                       /\ UNCHANGED scan_users
               /\ UNCHANGED <<tasks, submitted>>
    /\ UNCHANGED <<users, now, scan, market, started, changes>>
    /\ UNCHANGED attemptVars
    /\ UNCHANGED pureVars

\* check_symbol, lines 188-192, after save_users: the blacklist test and the
\* hand-over of open_trade_for_user to a new executor
CheckSymbolSubmit(s) ==
    /\ wpc[s] = "submit"
    /\ LET i == idx[s]
           u == scan_users[s][i]
           s4 == signal_4h(u, market[s])
       IN /\ IF Blacklisted(u, s)
             THEN UNCHANGED <<tasks, submitted>>
             ELSE /\ tasks' = tasks \cup {Task(u.chat_id, s, Period(s4))}
                  /\ submitted' = submitted \cup
                         {Submission(u.chat_id, s, now, scan)}
          /\ idx' = [idx EXCEPT ![s] = i + 1]
          /\ wpc' = [wpc EXCEPT ![s] =
                        IF i < Len(scan_users[s]) THEN "loop" ELSE "return"]
    /\ UNCHANGED <<file, users, now, scan, scan_users, market, alerts,
                   started, changes>>
    /\ UNCHANGED attemptVars
    /\ UNCHANGED pureVars

\* check_symbol returns: its locals are gone
CheckSymbolReturn(s) ==
    /\ wpc[s] = "return"
    /\ wpc' = [wpc EXCEPT ![s] = "done"]
    /\ scan_users' = [scan_users EXCEPT ![s] = <<>>]
    /\ idx' = [idx EXCEPT ![s] = 0]
    /\ market' = [market EXCEPT ![s] = NoMarket]
    /\ alerts' = [alerts EXCEPT ![s] = {}]
    /\ UNCHANGED <<file, users, now, scan, tasks, submitted, started, changes>>
    /\ UNCHANGED attemptVars
    /\ UNCHANGED pureVars

\* open_trade_for_user, lines 219-230: the subscriber is looked up in the
\* global users; an unknown subscriber or a blacklisted symbol returns
\* before the first exchange call
OpenTradeStart(task) ==
    /\ task \in tasks
    /\ tasks' = tasks \ {task}
    /\ LET known == {i \in 1..Len(users) : users[i].chat_id = task.chat_id}
       IN IF known = {} \/ \E i \in known : Blacklisted(users[i], task.symbol)
          THEN UNCHANGED started
          ELSE started' = started \cup {task}
    /\ UNCHANGED <<file, users, now, scan, wpc, scan_users, idx, market,
                   alerts, submitted, changes>>
    /\ UNCHANGED attemptVars
    /\ UNCHANGED pureVars

\* button_handler, lines 461-487: a toggle of the settings menu changes the
\* global users and saves it
ButtonHandler(i, field) ==
    /\ changes < MaxChanges
    /\ i \in 1..Len(users)
    /\ users' = [users EXCEPT ![i][field] = ~@]
    /\ file' = SaveUsers(file, users')
    /\ changes' = changes + 1
    /\ UNCHANGED <<now, scan, wpc, scan_users, idx, market, alerts, tasks,
                   submitted, started>>
    /\ UNCHANGED attemptVars
    /\ UNCHANGED pureVars

\* blacklist_add, lines 558-568
BlacklistAdd(i, symbol) ==
    /\ changes < MaxChanges
    /\ i \in 1..Len(users)
    /\ symbol \notin users[i].blacklist
    /\ users' = [users EXCEPT ![i].blacklist = @ \cup {symbol}]
    /\ file' = SaveUsers(file, users')
    /\ changes' = changes + 1
    /\ UNCHANGED <<now, scan, wpc, scan_users, idx, market, alerts, tasks,
                   submitted, started>>
    /\ UNCHANGED attemptVars
    /\ UNCHANGED pureVars

NextScan ==
    \/ ScanStart
    \/ \E s \in Symbols : CheckSymbolFetch(s)
    \/ \E s \in Symbols : CheckSymbolUser(s)
    \/ \E s \in Symbols : CheckSymbolSubmit(s)
    \/ \E s \in Symbols : CheckSymbolReturn(s)
    \/ \E task \in Tasks : OpenTradeStart(task)
    \/ \E i \in 1..Len(StoredUsers), field \in ToggleFields : ButtonHandler(i, field)
    \/ \E i \in 1..Len(StoredUsers), symbol \in BlacklistCommands : BlacklistAdd(i, symbol)

SpecScan == InitScan /\ [][NextScan]_vars

\* open_trade_for_user ends by an exception that leaves it (the except
\* clause of lines 313-319 raising itself): the exception stays in the
\* Future of the executor of line 192, which nobody reads, and the call is
\* over
OpenTradeRaises(task) ==
    /\ task \in started
    /\ started' = started \ {task}
    /\ UNCHANGED <<file, users, now, scan, wpc, scan_users, idx, market,
                   alerts, tasks, submitted, changes>>
    /\ UNCHANGED attemptVars
    /\ UNCHANGED pureVars

\* the steps of the program's own threads: the main loop, the workers of a
\* pass and the executors of the calls handed over
ProgramStep ==
    \/ ScanStart
    \/ \E s \in Symbols : CheckSymbolFetch(s)
    \/ \E s \in Symbols : CheckSymbolUser(s)
    \/ \E s \in Symbols : CheckSymbolSubmit(s)
    \/ \E s \in Symbols : CheckSymbolReturn(s)
    \/ \E task \in Tasks : OpenTradeStart(task)
    \/ \E task \in Tasks : OpenTradeRaises(task)

\* the passes of the scan while no settings command comes; the threads run
\* on while one of them has a step to take
SpecPasses == InitScan /\ [][ProgramStep]_vars /\ WF_vars(ProgramStep)

\* ------------------------------------------------ one pass from any store

\* the first subscriber as an earlier pass and earlier commands can have
\* left them: trading on or off, the first symbol blacklisted or not, a
\* time stored for it at hour 0 or none
EvalUser1 ==
    { [StoredUser("u1", 5) EXCEPT !.trading_enabled = t, !.blacklist = b,
                                  !.last_signal_time = l] :
          t \in BOOLEAN, b \in {{}, {"S1"}}, l \in {EmptyMap, [x \in {"S1"} |-> 0]} }

\* the second subscriber, with or without a time stored for the first symbol
EvalUser2 ==
    { [StoredUser("u2", 7) EXCEPT !.last_signal_time = l] :
          l \in {EmptyMap, [x \in {"S1"} |-> 0]} }

\* users.json when the pass starts
EvalStores == {<<a, b>> : a \in EvalUser1, b \in EvalUser2}

\* the global users when the pass starts: what users.json holds, or that
\* with the first symbol in the blacklist of the first subscriber (a
\* /blacklist_add whose write to users.json was overwritten)
EvalMemories(store) == {store, [store EXCEPT ![1].blacklist = @ \cup {"S1"}]}

\* a pass has just started, 2, 3 or 4 hours after hour 0
InitEval ==
    /\ AttemptInit
    /\ PureIdle
    /\ user_data = [exists |-> FALSE, blacklisted |-> FALSE,
                    trailing_enabled |-> FALSE, volume_filter_enabled |-> FALSE,
                    n_tp |-> 1, plan_qty |-> 10 * Scale]
    /\ file \in EvalStores
    /\ users \in EvalMemories(file)
    /\ now \in ElapsedHours
    /\ scan = 1
    /\ wpc = [s \in Symbols |-> "fetch"]
    /\ scan_users = [s \in Symbols |-> <<>>]
    /\ idx = [s \in Symbols |-> 0]
    /\ market = [s \in Symbols |-> NoMarket]
    /\ alerts = [s \in Symbols |-> {}]
    /\ tasks = {}
    /\ submitted = {}
    /\ started = {}
    /\ changes = 0

NextEval ==
    \/ \E s \in Symbols : CheckSymbolFetch(s)
    \/ \E s \in Symbols : CheckSymbolUser(s)
    \/ \E s \in Symbols : CheckSymbolSubmit(s)
    \/ \E s \in Symbols : CheckSymbolReturn(s)
    \/ \E task \in Tasks : OpenTradeStart(task)

SpecEval == InitEval /\ [][NextEval]_vars

\* ------------------------------------------------- quantities (pure)

\* prices are integers counted in units of 10^-2
PriceScale == 100

\* count_decimal_places for a price of at most two decimals: str(number)
\* without its trailing zeros, the digits after the point
count_decimal_places(number) ==
    IF number % 10 # 0 THEN 2
    ELSE IF number % PriceScale # 0 THEN 1
    ELSE 0

\* lines 244, 247 and 255: qty = margin_usdt * leverage / price_now, then
\* round(qty, 0 if precision < 2 else 1); the result in units of 10^-4
OrderQty(margin_usdt, leverage, price_now) ==
    LET precision == count_decimal_places(price_now)
        nd == IF precision < 2 THEN 0 ELSE 1
    IN  RoundHalfEven(margin_usdt * leverage * PriceScale * 10 ^ nd, price_now)
            * 10 ^ (4 - nd)

\* margin_usdt and leverage of the configurations studied (50 and 10 are the
\* defaults of line 244)
Margins == {10, 50}
Leverages == {1, 10}

\* signal prices: 0.25, 0.5, 25.5, 1000.0, 20000.25, 60000.5
Prices == {25, 50, 2550, 100000, 2000025, 6000050}

\* quantities handed to set_multiple_tp: 0.1, 0.3, 1, 3, 5 and 10
SplitQtys == {1000, 3000, 10000, 30000, 50000, 100000}

\* decimal places of the mark price handed to set_multiple_tp
TpPrecisions == 0..4

\* percentages are integers counted in tenths of a percent
PctScale == 10

\* round(price_now * (1 + pct / 100), precision) with precision =
\* count_decimal_places(price_now), for a signed percentage; the price and
\* the result in units of 10^-2
RoundedPrice(price_now, pct_tenths) ==
    LET precision == count_decimal_places(price_now)
    IN  RoundHalfEven(price_now * (100 * PctScale + pct_tenths),
                      100 * PctScale * 10 ^ (2 - precision))
            * 10 ^ (2 - precision)

\* lines 246-248: the stop price attached to the entry
StopPrice(price_now, stop_loss_pct) == RoundedPrice(price_now, 0 - stop_loss_pct)

\* lines 250-253: the trigger prices of the take-profit levels
TpPrices(price_now, take_profit_pcts) ==
    [i \in 1..Len(take_profit_pcts) |->
        RoundedPrice(price_now, take_profit_pcts[i])]

\* signal prices the trigger prices are computed for: 0.26, 0.5, 10.0, 25.5
\* and 1000.0
TriggerPrices == {26, 50, 1000, 2550, 100000}

\* stop_loss_pct 0.5 and 2.0 (the default of line 246)
StopLossPcts == {5, 20}

\* take_profit_pcts [4.0] and [4.0, 6.0] (the default of line 252)
TakeProfitPcts == {<<40>>, <<40, 60>>}

TriggerPriceArgs ==
    [fn : {"trigger_prices"}, price_now : TriggerPrices,
     stop_loss_pct : StopLossPcts, take_profit_pcts : TakeProfitPcts]

OrderQtyArgs ==
    [fn : {"order_qty"}, margin_usdt : Margins, leverage : Leverages,
     price_now : Prices]

SetMultipleTpArgs ==
    [fn : {"set_multiple_tp"}, qty : SplitQtys, n : 1..MaxLevels,
     precision : TpPrecisions]

\* one computation is about to be applied to its arguments
InitQty ==
    /\ AttemptInit
    /\ user_data = [exists |-> FALSE, blacklisted |-> FALSE,
                    trailing_enabled |-> FALSE, volume_filter_enabled |-> FALSE,
                    n_tp |-> 1, plan_qty |-> 10 * Scale]
    /\ ScanIdle
    /\ fn_args \in OrderQtyArgs \cup SetMultipleTpArgs \cup TriggerPriceArgs
    /\ fn_result = <<>>

\* lines 244-255: the quantity of the entry order
ComputeOrderQty ==
    /\ fn_args.fn = "order_qty"
    /\ fn_result = <<>>
    /\ fn_result' =
        <<OrderQty(fn_args.margin_usdt, fn_args.leverage, fn_args.price_now)>>
    /\ UNCHANGED fn_args
    /\ UNCHANGED attemptVars
    /\ UNCHANGED scanVars

\* bingx_client 227-240: qty_tp is computed once and is the quantity of the
\* order of every level
ComputeQtyTp ==
    /\ fn_args.fn = "set_multiple_tp"
    /\ fn_result = <<>>
    /\ fn_result' =
        [i \in 1..fn_args.n |->
            QtyTp(fn_args.qty, fn_args.n, fn_args.precision)]
    /\ UNCHANGED fn_args
    /\ UNCHANGED attemptVars
    /\ UNCHANGED scanVars

\* lines 246-254: the stop price, then the take-profit trigger prices
ComputeTriggerPrices ==
    /\ fn_args.fn = "trigger_prices"
    /\ fn_result = <<>>
    /\ fn_result' =
        <<StopPrice(fn_args.price_now, fn_args.stop_loss_pct)>>
            \o TpPrices(fn_args.price_now, fn_args.take_profit_pcts)
    /\ UNCHANGED fn_args
    /\ UNCHANGED attemptVars
    /\ UNCHANGED scanVars

NextQty ==
    \/ ComputeOrderQty
    \/ ComputeQtyTp
    \/ ComputeTriggerPrices

SpecQty == InitQty /\ [][NextQty]_vars

\* ------------------------------------------------------- terminal result

Terminal == pc \in {"done", "crashed"}

Idx == 1..Len(calls)

CloseCalls == {i \in Idx : calls[i].op = "close"}

CancelCalls == {i \in Idx : calls[i].op \in {"cancel_all", "cancel"}}

\* calls that place an order: entry, close, take-profit, trailing stop
OrderCalls == {i \in Idx : calls[i].op \in {"entry", "close", "tp", "trailing"}}

\* the ExecutionOutcome of a finished attempt, read off the path the function
\* took: what it did last (closed, or not) and the first failure it met
Outcome ==
    IF pc = "crashed" THEN [kind |-> "Crashed", reason |-> failure]
    ELSE IF pc # "done" THEN [kind |-> "Running", reason |-> failure]
    ELSE IF CloseCalls # {} THEN [kind |-> "ClosedOnFailure", reason |-> failure]
    ELSE IF failure = "none" THEN [kind |-> "Opened", reason |-> failure]
    ELSE IF failure = "trailing_failed"
         THEN [kind |-> "OpenedWithDegradedProtection", reason |-> failure]
    ELSE [kind |-> "Aborted", reason |-> failure]

\* ------------------------------------------------------------------ claims

\* the entry was accepted: the last entry answer is the success code
EntrySucceeded == "resp" \in bound /\ resp = 0

\* the position query found at least 90% of the requested quantity
PositionVerified ==
    "pos" \in bound /\ pos.found /\ 10 * Abs(pos.positionAmt) >= 9 * qty

\* some level of the answer list has a non-zero code
SomeLevelFailed(a) == \E i \in 1..Len(a) : a[i] # 0

\* the take-profit orders counted by the check of lines 296-297
CountedTp ==
    Cardinality({i \in 1..Len(orders) : orders[i].type = "TAKE_PROFIT_MARKET"})

\* no request of the attempt raised, and every query was answered with code 0
NoCallFailedExceptTp ==
    \A i \in Idx :
        calls[i].op \notin {"tp", "klines"} => calls[i].code \in {0, CodeModeMismatch}

\* C1: entry succeeded, position verified, the first take-profit split has a
\* failing level, the retry at 99% succeeds at every level (and every other
\* call is answered with success): no cancel and no close is submitted, the
\* position stays open and the attempt ends as Opened.
C1_RetrySuccessEndsOpened ==
    ( /\ EntrySucceeded
      /\ PositionVerified
      /\ "resp_tps" \in bound /\ SomeLevelFailed(resp_tps)
      /\ "retry_resp" \in bound /\ ~SomeLevelFailed(retry_resp)
      /\ NoCallFailedExceptTp )
    => /\ CloseCalls = {}
       /\ CancelCalls = {}
       /\ exPos = pos.positionAmt
       /\ Terminal => Outcome.kind = "Opened"

\* C2: when a call of the attempt made before any close (leverage, entry,
\* position query, take-profit placement, open-orders query, cancel) raises,
\* a reduce-only close of the full quantity is attempted before the end.
C2_RaiseIsFollowedByClose ==
    Terminal =>
        \A i \in Idx :
            ( /\ calls[i].code = Raise
              /\ calls[i].op \in {"leverage", "entry", "positions", "tp",
                                  "orders", "cancel_all", "cancel"}
              /\ \A j \in CloseCalls : j > i )
            => \E j \in CloseCalls :
                   /\ j > i
                   /\ calls[j].reduceOnly
                   /\ calls[j].quantity = user_data.plan_qty

\* C3: when the first leverage call is answered with the mode-mismatch code,
\* exactly one more leverage call is made, under the one-way convention, and
\* every later order of the attempt (entry, close, take-profit, trailing
\* stop) is submitted under the one-way convention.
C3_LeverageFallbackIsKept ==
    ( /\ Len(calls) >= 1
      /\ calls[1].op = "leverage"
      /\ calls[1].code = CodeModeMismatch )
    => /\ Cardinality({i \in Idx : calls[i].op = "leverage"}) <= 2
       /\ Len(calls) >= 2 =>
              calls[2].op = "leverage" /\ calls[2].positionSide = "BOTH"
       /\ \A i \in OrderCalls : calls[i].positionSide = "BOTH"

\* the first entry submission of the attempt, 0 if there is none yet
FirstEntry ==
    IF \E i \in Idx : calls[i].op = "entry"
    THEN CHOOSE i \in Idx :
            /\ calls[i].op = "entry"
            /\ \A j \in Idx : calls[j].op = "entry" => i <= j
    ELSE 0

\* C4: when the entry order is answered with the mode-mismatch code, it is
\* retried exactly once under the one-way convention and every later order
\* (close, take-profit, trailing stop) has positionSide BOTH.
C4_EntryFallbackIsKept ==
    ( /\ FirstEntry # 0
      /\ calls[FirstEntry].code = CodeModeMismatch )
    => /\ Cardinality({i \in Idx : calls[i].op = "entry"}) <= 2
       /\ Len(calls) > FirstEntry =>
              /\ calls[FirstEntry + 1].op = "entry"
              /\ calls[FirstEntry + 1].positionSide = "BOTH"
       /\ \A i \in OrderCalls : i > FirstEntry => calls[i].positionSide = "BOTH"

\* C5: a step after PlaceEntry (position query, take-profit order, trailing
\* stop) is made only after an entry submission answered with the success
\* code.
C5_LaterStepsNeedAcceptedEntry ==
    \A i \in Idx :
        calls[i].op \in {"positions", "tp", "trailing"}
        => \E j \in Idx : j < i /\ calls[j].op = "entry" /\ calls[j].code = 0

\* C6: after a successful entry, a position that is absent or below 90% of
\* the requested quantity leads to a reduce-only close of that quantity, no
\* take-profit or trailing order, and ClosedOnFailure(position_not_opened);
\* a position of at least 90% lets the attempt go on to SetTakeProfits.
C6_PositionCheck ==
    (EntrySucceeded /\ "pos" \in bound) =>
        IF ~pos.found \/ 10 * Abs(pos.positionAmt) < 9 * qty
        THEN /\ \A i \in Idx : calls[i].op \notin {"tp", "trailing"}
             /\ failure = "position_not_opened"
             /\ pc \in {"close_not_opened", "except", "except_close", "done"}
             /\ pc # "close_not_opened" =>
                    \E i \in CloseCalls :
                        calls[i].reduceOnly /\ calls[i].quantity = qty
             /\ Terminal =>
                    Outcome = [kind |-> "ClosedOnFailure",
                               reason |-> "position_not_opened"]
        ELSE /\ failure # "position_not_opened"
             /\ pc = "tp_first" \/ split_qty # 0

C6_Witness ==
    /\ EntrySucceeded /\ "pos" \in bound
    /\ pos.found /\ 10 * Abs(pos.positionAmt) < 9 * qty
    /\ pc = "done"
    /\ CloseCalls # {}

C8_SecondSplitFailureCloses ==
    ( /\ "resp_tps" \in bound /\ SomeLevelFailed(resp_tps)
      /\ "retry_resp" \in bound /\ SomeLevelFailed(retry_resp) )
    => /\ failure = "tp_placement_failed"
       /\ pc \in {"close_tp_failed", "except", "except_close", "done"}
       /\ Cardinality({i \in Idx : calls[i].op = "tp"}) = 2 * user_data.n_tp
       /\ pc # "close_tp_failed" =>
              \E i \in CloseCalls :
                  calls[i].reduceOnly /\ calls[i].quantity = qty
       /\ Terminal =>
              Outcome = [kind |-> "ClosedOnFailure",
                         reason |-> "tp_placement_failed"]

C8_Witness ==
    /\ "retry_resp" \in bound /\ SomeLevelFailed(retry_resp)
    /\ SomeLevelFailed(resp_tps)
    /\ \E i \in 1..Len(retry_resp) : retry_resp[i] = 0
    /\ pc = "done"
    /\ CloseCalls # {}

\* C9: a failed trailing-stop step (non-success code or exception) does not
\* unwind: no close and no cancel is submitted, the take-profit orders stay
\* and the attempt ends as OpenedWithDegradedProtection.
C9_TrailingFailureKeepsPosition ==
    (\E i \in Idx : calls[i].op = "trailing" /\ calls[i].code # 0) =>
        /\ CloseCalls = {}
        /\ CancelCalls = {}
        /\ exOrders = orders
        /\ Terminal => Outcome.kind = "OpenedWithDegradedProtection"

\* C10: entry succeeded, position verified at 90% or more, every level of
\* the first split accepted, exactly N live take-profit orders counted and
\* trailing disabled: the attempt ends as Opened and never submitted a close
\* or a cancel.
C10_ScenarioA ==
    ( /\ EntrySucceeded
      /\ PositionVerified
      /\ "resp_tps" \in bound /\ ~SomeLevelFailed(resp_tps)
      /\ "orders" \in bound /\ CountedTp = user_data.n_tp
      /\ ~user_data.trailing_enabled )
    => /\ pc = "done"
       /\ Outcome = [kind |-> "Opened", reason |-> "none"]
       /\ CloseCalls = {}
       /\ CancelCalls = {}

C10_Witness ==
    /\ EntrySucceeded
    /\ PositionVerified
    /\ "resp_tps" \in bound /\ ~SomeLevelFailed(resp_tps)
    /\ "orders" \in bound /\ CountedTp = user_data.n_tp
    /\ ~user_data.trailing_enabled
    /\ pc = "done"

\* the entry submissions of the attempt
EntryCalls == {i \in Idx : calls[i].op = "entry"}

\* C11: in an attempt where every entry submission was answered, without an
\* exception, by a non-success code (symbol not tradable or a rejection), the
\* attempt ends as Aborted and no reduce-only close order is submitted.
C11_RejectedEntryEndsAborted ==
    ( /\ Terminal
      /\ EntryCalls # {}
      /\ \A i \in EntryCalls : calls[i].code \notin {0, Raise} )
    => /\ Outcome.kind = "Aborted"
       /\ CloseCalls = {}

\* the messages that report a position closed after a failure
ClosedOnFailureMsgs == {"tp_failed_closed", "not_all_tps_closed", "error"}

\* C18: the "order placed" message is sent only in an attempt that ends as
\* Opened or OpenedWithDegradedProtection and is never followed, in the same
\* attempt, by a closed-on-failure message.
C18_SuccessMessageIsFinal ==
    \A i \in 1..Len(msgs) :
        msgs[i] = "order_placed" =>
            /\ \A j \in (i + 1)..Len(msgs) : msgs[j] \notin ClosedOnFailureMsgs
            /\ Terminal =>
                   Outcome.kind \in {"Opened", "OpenedWithDegradedProtection"}

\* C19: an attempt that ends with the position open and the trailing stop
\* not armed has sent the subscriber a message after the "order placed"
\* one, and an attempt that ends after a compensating close has sent the
\* subscriber a closed-on-failure message.
C19_DegradedAndClosedAreReported ==
    Terminal =>
        /\ Outcome.kind = "OpenedWithDegradedProtection" =>
               /\ msgs # <<>>
               /\ msgs[Len(msgs)] # "order_placed"
        /\ CloseCalls # {} =>
               \E i \in 1..Len(msgs) : msgs[i] \in ClosedOnFailureMsgs

\* C17: when the volume filter is enabled and its gate does not pass, for
\* fewer than VOL_PERIOD candles or for a latest volume below the mean of the
\* previous candles times the multiplier, the attempt ends without any
\* order: no entry, no close, no take-profit, no trailing stop.
C17_VolumeGateBlocksOrders ==
    ( /\ user_data.volume_filter_enabled
      /\ "klines" \in bound
      /\ \/ klines.len < VOL_PERIOD
         \/ klines.last * (klines.len - 1) < klines.prev_sum * VolumeMultiplier )
    => /\ OrderCalls = {}
       /\ Terminal

\* an attempt stopped by the gate for too few candles, after the leverage
\* calls were made
C17_Witness ==
    /\ user_data.volume_filter_enabled
    /\ "klines" \in bound
    /\ klines.len < VOL_PERIOD
    /\ pc = "done"
    /\ failure = "volume_filter"
    /\ OrderCalls = {}
    /\ Len(calls) >= 2

\* ----------------------------------------------------- claims on the scan

\* the 4h condition of a subscriber: growth of the open interest at or above
\* the threshold, growth of the price at most that growth times the
\* subscriber's ratio, and the period switched on
Condition4h(u, m) ==
    /\ u.signals_4h_enabled
    /\ AtLeast(pct(m.oi_now, m.oi_4h_ago), OI_4H_THRESHOLD)
    /\ WithinRatio(pct(m.price_now, m.price_4h_ago),
                   pct(m.oi_now, m.oi_4h_ago), u.price_oi_ratio)

\* the 24h condition of a subscriber
Condition24h(u, m) ==
    /\ u.signals_24h_enabled
    /\ AtLeast(pct(m.oi_now, m.oi_24h_ago), OI_24H_THRESHOLD)
    /\ WithinRatio(pct(m.price_now, m.price_24h_ago),
                   pct(m.oi_now, m.oi_24h_ago), u.price_oi_ratio)

\* the signal fires for the subscriber
Fires(u, m) == Condition4h(u, m) \/ Condition24h(u, m)

\* the worker of the symbol has sent the subscriber an alert
Alerted(s, chat_id) == \E a \in alerts[s] : a.chat_id = chat_id

\* the subscribers the worker of the symbol loaded
Loaded(s) == 1..Len(scan_users[s])

\* the worker of the symbol evaluates one subscriber in this step (lines
\* 148-186)
Iterates(s) == wpc[s] = "loop" /\ <<wpc[s], idx[s]>> # <<wpc'[s], idx'[s]>>

\* the worker of the symbol passes lines 188-192 in this step
Submits(s) == wpc[s] = "submit" /\ wpc'[s] # "submit"

\* C12: under every interleaving of the workers of one pass and of the
\* settings handlers, two hand-overs of the same subscriber and symbol in
\* different passes are at least the cooldown apart.
C12_NoSecondAttemptInCooldown ==
    \A a \in submitted, b \in submitted :
        ( /\ a.chat_id = b.chat_id
          /\ a.symbol = b.symbol
          /\ a.scan < b.scan )
        => b.time - a.time >= SIGNAL_COOLDOWN_HOURS

C14_AlertedIffOwnCondition ==
    \A s \in Symbols :
        wpc[s] = "return" =>
            \A i \in Loaded(s) :
                Alerted(s, scan_users[s][i].chat_id)
                    <=> Fires(scan_users[s][i], market[s])

\* C15: open_trade_for_user is handed over for a subscriber and symbol only
\* in an iteration in which the signal fired for the subscriber, trading is
\* enabled, the symbol is outside the cooldown and not in the blacklist; and
\* only a call handed over whose symbol is not in the subscriber's blacklist
\* goes on to the exchange.
C15_AttemptOnlyWhenAllowed ==
    [][ /\ (submitted' # submitted \/ ~(tasks' \subseteq tasks)) =>
              \E s \in Symbols :
                  LET u == scan_users[s][idx[s]]
                  IN /\ Submits(s)
                     /\ submitted' = submitted \cup
                            {Submission(u.chat_id, s, now, scan)}
                     /\ \E period \in {"4h", "24h"} :
                            tasks' = tasks \cup {Task(u.chat_id, s, period)}
                     /\ Fires(u, market[s])
                     /\ u.trading_enabled
                     /\ s \notin u.blacklist
        /\ \A s \in Symbols :
              LET u == scan_users[s][idx[s]]
              IN (Iterates(s) /\ wpc'[s] = "submit") =>
                    /\ Fires(u, market[s])
                    /\ u.trading_enabled
                    /\ ~( /\ s \in DOMAIN u.last_signal_time
                          /\ now - u.last_signal_time[s] < SIGNAL_COOLDOWN_HOURS )
        /\ ~(started' \subseteq started) =>
              \E task \in tasks :
                  /\ started' = started \cup {task}
                  /\ Submission(task.chat_id, task.symbol, now, scan) \in submitted
                  /\ \E k \in 1..Len(users) :
                         /\ users[k].chat_id = task.chat_id
                         /\ task.symbol \notin users[k].blacklist
      ]_vars

\* a call handed over in this pass has gone on to the exchange
C15_Witness ==
    \E task \in started :
        /\ Submission(task.chat_id, task.symbol, now, scan) \in submitted
        /\ task \notin tasks

\* C16: when the worker of a symbol has gone through the store, every
\* subscriber for whom the signal fires has been alerted, whatever the
\* trading flag, the cooldown and the blacklist are; and for a subscriber
\* with trading disabled nothing was handed over and no time was stored.
C16_EveryFiredSignalIsAlerted ==
    \A s \in Symbols :
        wpc[s] = "return" =>
            \A i \in Loaded(s) :
                LET u == scan_users[s][i]
                IN /\ Fires(u, market[s]) => Alerted(s, u.chat_id)
                   /\ ~u.trading_enabled =>
                          /\ \A a \in submitted :
                                 ~( /\ a.chat_id = u.chat_id
                                    /\ a.symbol = s
                                    /\ a.scan = scan )
                          /\ ~( /\ s \in DOMAIN u.last_signal_time
                                /\ u.last_signal_time[s] = now )

\* C20: whenever the 4h and the 24h condition both hold for a subscriber,
\* the period of the alert, and of the call handed over, is "4h".
C20_BothPeriodsReport4h ==
    \A s \in Symbols : \A i \in Loaded(s) :
        LET u == scan_users[s][i]
        IN (Condition4h(u, market[s]) /\ Condition24h(u, market[s])) =>
              /\ \A a \in alerts[s] : a.chat_id = u.chat_id => a.period = "4h"
              /\ \A task \in tasks :
                     (task.chat_id = u.chat_id /\ task.symbol = s) =>
                         task.period = "4h"

\* both conditions hold for a subscriber who was alerted and handed over
C20_Witness ==
    \E s \in Symbols : \E i \in Loaded(s) :
        LET u == scan_users[s][i]
        IN /\ Condition4h(u, market[s])
           /\ Condition24h(u, market[s])
           /\ [chat_id |-> u.chat_id, period |-> "4h"] \in alerts[s]
           /\ Task(u.chat_id, s, "4h") \in tasks

\* C23: at most one reduce-only close order is submitted per execution
\* attempt: once a close has been submitted, whether it succeeded or failed,
\* no second close is submitted in the same attempt
C23_AtMostOneClose == Cardinality(CloseCalls) <= 1

\* the conditional orders the attempt placed and that are still live on the
\* exchange: the stop-loss attached to the entry and the take-profit orders
LiveConditionalOrders ==
    {i \in 1..Len(exOrders) :
        exOrders[i].type \in {"STOP_MARKET", "TAKE_PROFIT_MARKET"}}

\* C28: whenever an attempt ends with a compensating close, no conditional
\* order placed by the attempt (attached stop-loss or take-profit) is left
\* live on the exchange
C28_NoLiveOrderAfterClose ==
    (Terminal /\ CloseCalls # {}) => LiveConditionalOrders = {}

\* the attempt's thread runs on while a step is possible: every exchange and
\* market-data call returns or raises
SpecFair == Spec /\ WF_vars(Next)

LeverageCalls == {i \in Idx : calls[i].op = "leverage"}

TpCalls == {i \in Idx : calls[i].op = "tp"}

\* at most two leverage calls, two entry submissions and two take-profit
\* splits of n_tp orders each
BoundedCalls ==
    /\ Cardinality(LeverageCalls) <= 2
    /\ Cardinality(EntryCalls) <= 2
    /\ Cardinality(TpCalls) <= 2 * user_data.n_tp

\* C29: when every exchange and market-data call returns or raises, every
\* execution attempt terminates, after at most two leverage calls, two entry
\* submissions and two take-profit splits
C29_AttemptTerminatesBounded == <>Terminal /\ []BoundedCalls

\* an attempt that ended after two leverage calls, two entry submissions and
\* two full take-profit splits
C29_Witness ==
    /\ Terminal
    /\ Cardinality(LeverageCalls) = 2
    /\ Cardinality(EntryCalls) = 2
    /\ Cardinality(TpCalls) = 2 * user_data.n_tp

RECURSIVE SumOf(_)
SumOf(seq) == IF seq = <<>> THEN 0 ELSE Head(seq) + SumOf(Tail(seq))

\* C26: for every quantity Q, number of levels N >= 1 and rounding bucket,
\* set_multiple_tp submits the same quantity round(Q / N, rule) for each of
\* the N levels, and the sum of the N level quantities never exceeds Q
C26_SplitNeverExceedsQty ==
    (fn_args.fn = "set_multiple_tp" /\ fn_result # <<>>) =>
        /\ Len(fn_result) = fn_args.n
        /\ \A i \in 1..Len(fn_result) :
            fn_result[i] =
                Round(fn_args.qty, fn_args.n, QtyRound(fn_args.precision))
        /\ SumOf(fn_result) <= fn_args.qty

\* C30: for every configuration with positive margin and leverage and every
\* positive signal price, the rounded quantity of the entry order is
\* strictly positive
C30_OrderQtyPositive ==
    (fn_args.fn = "order_qty" /\ fn_result # <<>>) => fn_result[1] > 0

\* C21: for a symbol whose 24h open-interest history or 24h price candles
\* have fewer than the 288 expected points, the scan produces no signal: the
\* loop over the subscribers is not entered, no alert is sent and no
\* execution task is handed over
C21_ShortWindowGivesNoSignal ==
    \A s \in Symbols :
        (/\ wpc[s] \in {"loop", "submit", "return"}
         /\ ~market[s].raises
         /\ \/ market[s].oi_points < OiHistPoints24h
            \/ market[s].kline_points < OiHistPoints24h) =>
            /\ wpc[s] = "return"
            /\ alerts[s] = {}
            /\ ~\E t \in submitted : t.symbol = s /\ t.scan = scan

\* the store holds, for the subscriber, the time t as last signal of the symbol
Stored(store, chat_id, s, t) ==
    \E k \in 1..Len(store) :
        /\ store[k].chat_id = chat_id
        /\ s \in DOMAIN store[k].last_signal_time
        /\ store[k].last_signal_time[s] = t

\* C24: in every accepted trigger the new last-signal time of the user and
\* symbol is written to the store before the execution task is handed over,
\* and the task is handed over before its first exchange call: the worker
\* reaches the hand-over only by the step that wrote the store, a task is
\* handed over only from there, and only a task handed over is begun
C24_StoredBeforeSubmitted ==
    [][ /\ \A s \in Symbols :
              (wpc'[s] = "submit" /\ wpc[s] # "submit") =>
                  /\ wpc[s] = "loop"
                  /\ Stored(file', scan_users[s][idx[s]].chat_id, s, now)
        /\ (submitted' # submitted \/ ~(tasks' \subseteq tasks)) =>
              \E s \in Symbols :
                  /\ wpc[s] = "submit"
                  /\ submitted' \ submitted =
                         {Submission(scan_users[s][idx[s]].chat_id, s, now, scan)}
                  /\ \A task \in tasks' \ tasks :
                         /\ task.chat_id = scan_users[s][idx[s]].chat_id
                         /\ task.symbol = s
        /\ ~(started' \subseteq started) => started' \ started \subseteq tasks
      ]_vars

\* a task was handed over and the store holds the time of its trigger
C24_Witness ==
    \E task \in tasks :
        /\ Stored(file, task.chat_id, task.symbol, now)
        /\ Submission(task.chat_id, task.symbol, now, scan) \in submitted

\* C25: a write to the store made by a worker of the scan changes only the
\* last-signal map of the subscriber being processed: against the store
\* right before the write, the subscribers present are the same, every other
\* field of that subscriber and every field of the others are unchanged
C25_ScanWritesOnlyOwnStamp ==
    [][ \A s \in Symbols :
          (Iterates(s) /\ file' # file) =>
              LET c == scan_users[s][idx[s]].chat_id
              IN /\ Len(file') = Len(file)
                 /\ \A k \in 1..Len(file) :
                        /\ file'[k].chat_id = file[k].chat_id
                        /\ file[k].chat_id # c => file'[k] = file[k]
                        /\ [file'[k] EXCEPT !.last_signal_time =
                                file[k].last_signal_time] = file[k]
      ]_vars

\* C27: a settings change saved by a subscriber leaves the stored last-signal
\* times of every remaining user unchanged
C27_SettingsKeepStamps ==
    [][ changes' # changes =>
          \A k \in 1..Len(file') : \A j \in 1..Len(file) :
              file'[k].chat_id = file[j].chat_id =>
                  file'[k].last_signal_time = file[j].last_signal_time
      ]_vars

\* a request of the worker of some symbol raised in the current pass
ErrorMet == \E s \in Symbols : wpc[s] # "fetch" /\ market[s].raises

\* a call handed over in the current pass ended by an exception
AttemptRaised ==
    \E task \in Tasks :
        /\ Submission(task.chat_id, task.symbol, now, scan) \in submitted
        /\ \A period \in {"4h", "24h"} :
               Task(task.chat_id, task.symbol, period) \notin tasks \cup started

\* C22: an error raised while one symbol is evaluated or inside one call of
\* open_trade_for_user never stops the scan: the workers of the pass go on
\* to their end, the calls handed over are begun and the next pass starts;
\* and the step in which a call ends by an exception changes nothing of the
\* workers and of the other calls
C22_ErrorNeverStopsScan ==
    /\ \A n \in 1..MaxScans :
           (scan = n /\ (ErrorMet \/ AttemptRaised)) ~>
               IF n < MaxScans THEN scan = n + 1
               ELSE ScanFinished /\ tasks = {}
    /\ [][ \A task \in Tasks :
             (task \in started /\ task \notin started' /\ scan' = scan) =>
                 /\ started' = started \ {task}
                 /\ UNCHANGED <<wpc, scan_users, idx, market, alerts, tasks,
                                submitted, file>>
         ]_vars

\* in a pass after the first a request for one symbol raised, a call handed
\* over by the worker of the other symbol ended by an exception, and the
\* worker went on to hand the next call over
C22_Witness ==
    /\ scan > 1
    /\ ErrorMet
    /\ AttemptRaised
    /\ tasks # {}

\* C31: for every positive signal price and positive stop-loss and
\* take-profit percentages, the rounded stop price attached to the entry is
\* strictly below the signal price and every rounded take-profit trigger
\* price is strictly above it
C31_TriggerPricesAroundSignal ==
    (fn_args.fn = "trigger_prices" /\ fn_result # <<>>) =>
        /\ Len(fn_result) = 1 + Len(fn_args.take_profit_pcts)
        /\ fn_result[1] < fn_args.price_now
        /\ \A i \in 2..Len(fn_result) : fn_result[i] > fn_args.price_now

============================================================================
